---- MODULE Spec2Model ----
(***************************************************************************)
(* The two tutorial notebooks of the repository as a state machine:        *)
(*   automl/00.configuration.ipynb  - create / load a workspace, write the *)
(*                                    configuration file, read it back     *)
(*   the remote-DSVM AutoML notebook - load the configuration, attach the  *)
(*                                    compute, submit, poll, cancel, fetch *)
(* A notebook is executed top to bottom (Run All): one action per code     *)
(* cell, and execution stops at the first cell that raises.  The remote    *)
(* service is modelled by what the notebooks' own text says about it.      *)
(***************************************************************************)
EXTENDS Integers, Sequences, FiniteSets, TLC

\* ------------------------------------------------------------------ bounds
\* executions (Run All) of the configuration notebook in one directory
MaxRuns == 2
\* largest number of iterations the service runs in parallel when the
\* settings give no concurrent_iterations
MaxConcurrent == 2
\* child runs of the run whose logged metrics are drawn freely (SpecResults)
MaxChildren == 3

\* ------------------------------------------------------- input value sets
Subscriptions == {"sub1", "sub2"}
ResourceGroups == {"myrg", "rg2"}
WorkspaceNames == {"myws", "ws2"}
Regions == {"eastus2", "westus2"}

VARIABLES
    notebook,          \* which notebook this kernel executes
    pc,                \* the next cell to execute ("done" after the last)
    error,             \* the exception shown to the user, NoError if none
    raised,            \* what the SDK call raised in this execution ("" if nothing)
    calls,             \* per call site: times issued in this execution
    runs,              \* executions of the notebook started so far
    \* --- the cloud subscription and the working directory
    remoteWs,          \* workspaces that exist remotely
    permitted,         \* the caller may create workspaces
    aml_config,        \* descriptor files present under ./aml_config
    writes,            \* history: descriptors written by write_config, in order
    \* --- kernel variables of 00.configuration
    subscription_id, resource_group, workspace_name, workspace_region,
    ws, my_workspace,
    \* --- kernel variables of the experiment notebook
    experiment, dsvm_compute, automl_settings, automl_config, remote_run,
    widget, seen, fitted_model, zero_model, model_id,
    \* --- the remote AutoML run
    run_settings,      \* the settings the service holds for the submitted run
    status,            \* iteration index -> NotStarted/Running/Completed/Canceled
    cancel_requested,  \* the service has accepted a cancel request
    cancel_requests,   \* cancel requests the service has received
    late,              \* history: an iteration completed after the cancel request
    default_concurrency, \* the service's limit when the settings name none
    child_runs,        \* the child runs of the run, in the order they were created
    \* --- what the child runs logged and what the notebook fetched of it
    logged,            \* iteration index -> the metrics that child run logged
    children,          \* list(remote_run.get_children())
    metricslist,       \* the dictionary the loop fills: <<key, value>> in insertion order
    rundata,           \* the table built of metricslist
    best_run, zero_run,
    rstep,             \* the result cell that ran ("off" where results are not followed)
    \* --- the data set (get_data.py and the test cell)
    n_rows, shuffle, data_dict, df_test, dstep

kernelVars == <<subscription_id, resource_group, workspace_name, workspace_region,
                ws, my_workspace>>
worldVars == <<remoteWs, permitted, aml_config, writes>>
clientVars == <<experiment, dsvm_compute, automl_settings, automl_config, remote_run,
                widget, seen, fitted_model, zero_model, model_id>>
serviceVars == <<run_settings, status, cancel_requested, cancel_requests, late,
                 default_concurrency, child_runs>>
resultVars == <<logged, children, metricslist, rundata, best_run, zero_run, rstep>>
dataVars == <<n_rows, shuffle, data_dict, df_test, dstep>>
ctlVars == <<notebook, pc, error, raised, calls, runs>>
vars == <<ctlVars, worldVars, kernelVars, clientVars, serviceVars, dataVars,
          resultVars>>

\* ---------------------------------------------------------------- values
NoWs == [subscription_id |-> "", resource_group |-> "", name |-> "", location |-> ""]
NoError == [cell |-> "", call |-> "", failure |-> ""]
NoRun == [id |-> ""]
NoSettings == [k \in {} |-> 0]

\* a remote workspace: identified by subscription, resource group and name
Workspace(s, r, n, l) ==
    [subscription_id |-> s, resource_group |-> r, name |-> n, location |-> l]

Exists(s, r, n) ==
    \E w \in remoteWs : w.subscription_id = s /\ w.resource_group = r /\ w.name = n

\* Workspace(workspace_name=..., subscription_id=..., resource_group=...):
\* the reference to the existing remote workspace of that identity
Lookup(s, r, n) ==
    CHOOSE w \in remoteWs : w.subscription_id = s /\ w.resource_group = r /\ w.name = n

\* ------------------------------------------------------------ notebooks
ConfigCells == <<"params", "create", "write_config", "from_config", "sample_projects">>
ExperimentCells == <<"from_config", "diagnostics", "attach", "makedirs", "writefile",
                     "view_data", "settings", "submit", "widget", "get_children",
                     "cancel", "get_output", "get_output_iteration", "register_model",
                     "test_model">>
Cells(nb) == IF nb = "00.configuration" THEN ConfigCells ELSE ExperimentCells

\* cells that touch neither the remote service nor a modelled kernel variable
LocalCells == {"sample_projects", "diagnostics", "makedirs", "writefile", "view_data",
               "test_model"}

\* position of a cell in its notebook; "done" is past the last cell
CellIndex(nb, c) ==
    IF c = "done" THEN Len(Cells(nb)) + 1
    ELSE CHOOSE i \in 1..Len(Cells(nb)) : Cells(nb)[i] = c

\* faulty variant: after the cancel cell the notebook goes back and submits again
NextCell_resubmit(nb, c) ==
    IF c = "cancel" THEN "submit"
    ELSE IF CellIndex(nb, c) = Len(Cells(nb)) THEN "done"
    ELSE Cells(nb)[CellIndex(nb, c) + 1]

\* Run All: the cell below the current one
NextCell(nb, c) ==
    IF CellIndex(nb, c) = Len(Cells(nb)) THEN "done"
    ELSE Cells(nb)[CellIndex(nb, c) + 1]

\* the remote call sites of the two notebooks
CallSites == {"Workspace.create", "create.get_details", "Workspace",
              "Workspace.from_config", "from_config.get_details",
              "RemoteCompute.attach", "experiment.submit", "get_children",
              "cancel", "get_output", "get_output_iteration", "register_model"}

\* the cell a call site belongs to
CellOf(site) ==
    CASE site \in {"Workspace.create", "create.get_details"} -> "create"
      [] site = "Workspace" -> "write_config"
      [] site \in {"Workspace.from_config", "from_config.get_details"} -> "from_config"
      [] site = "RemoteCompute.attach" -> "attach"
      [] site = "experiment.submit" -> "submit"
      [] OTHER -> site

\* call sites the notebook nb contains
SitesOf(nb) ==
    {s \in CallSites : \E i \in 1..Len(Cells(nb)) : Cells(nb)[i] = CellOf(s)}
      \ (IF nb = "00.configuration" THEN {} ELSE {"from_config.get_details"})

Issue(site) == [calls EXCEPT ![site] = @ + 1]

\* faulty variant: the failure is caught and swallowed
Uncaught_swallowed(cell, site, failure) == NoError

\* no try/except around any call: the exception the call raises is the
\* cell's outcome, unchanged
Uncaught(cell, site, failure) == [cell |-> cell, call |-> site, failure |-> failure]

\* a cell is executed only while the execution has not stopped on an error
Running(nb, c) == notebook = nb /\ pc = c /\ error = NoError

\* the cell at pc raised `failure` from call site `site`: execution stops there
Raise(site, failure) ==
    /\ error' = Uncaught(pc, site, failure)
    /\ raised' = failure
    /\ pc' = pc

\* the cell at pc ran to its end
Advance ==
    /\ error' = error
    /\ raised' = raised
    /\ pc' = NextCell(notebook, pc)

\* outcomes of the network under one remote call
Network == {"ok", "NetworkFailure"}

\* ------------------------------------------------ 00.configuration cells
\* the cell that sets subscription_id, resource_group, workspace_name and
\* workspace_region: the user fills in the values
Params ==
    /\ Running("00.configuration", "params")
    /\ \E s \in Subscriptions, r \in ResourceGroups, n \in WorkspaceNames, l \in Regions :
         /\ subscription_id' = s
         /\ resource_group' = r
         /\ workspace_name' = n
         /\ workspace_region' = l
    /\ Advance
    /\ UNCHANGED <<notebook, calls, runs, ws, my_workspace>>
    /\ UNCHANGED <<worldVars, clientVars, serviceVars, dataVars, resultVars>>

\* faulty variant: creation goes through although the workspace exists
CreateFailure_exist_ok(net) ==
    IF ~permitted THEN "InsufficientPermission"
    ELSE IF net # "ok" THEN net
    ELSE ""

\* "This will fail when: 1. The workspace already exists 2. You do not have
\* permission to create a workspace"; "" when the creation goes through
CreateFailure(net) ==
    IF Exists(subscription_id, resource_group, workspace_name) THEN "WorkspaceAlreadyExists"
    ELSE IF ~permitted THEN "InsufficientPermission"
    ELSE IF net # "ok" THEN net
    ELSE ""

\* ws = Workspace.create(name, subscription_id, resource_group, location)
\* ws.get_details()
Create ==
    /\ Running("00.configuration", "create")
    /\ \E net \in Network, net2 \in Network :
         LET failure == CreateFailure(net)
             new == Workspace(subscription_id, resource_group, workspace_name,
                              workspace_region)
         IN  IF failure # ""
             THEN /\ calls' = Issue("Workspace.create")
                  /\ Raise("Workspace.create", failure)
                  /\ UNCHANGED <<remoteWs, ws>>
             ELSE /\ remoteWs' = remoteWs \cup {new}
                  /\ ws' = new
                  /\ calls' = [calls EXCEPT !["Workspace.create"] = @ + 1,
                                            !["create.get_details"] = @ + 1]
                  /\ IF net2 # "ok" THEN Raise("create.get_details", net2) ELSE Advance
    /\ UNCHANGED <<notebook, runs, permitted, aml_config, writes, my_workspace>>
    /\ UNCHANGED <<subscription_id, resource_group, workspace_name, workspace_region>>
    /\ UNCHANGED <<clientVars, serviceVars, dataVars, resultVars>>

\* "If you already have access to an AML Workspace you want to use, you can
\* skip this cell."
SkipCreate ==
    /\ Running("00.configuration", "create")
    /\ Advance
    /\ UNCHANGED <<notebook, calls, runs>>
    /\ UNCHANGED <<worldVars, kernelVars, clientVars, serviceVars, dataVars, resultVars>>

\* the content of config.json: "persist the subscription id, resource group
\* name, and workspace name"
Descriptor(w) ==
    [subscription_id |-> w.subscription_id, resource_group |-> w.resource_group,
     workspace_name |-> w.name]

\* faulty variant: the descriptor is added next to the one already there
WriteConfig_keeps_old(files, w) == files \cup {Descriptor(w)}

\* ws.write_config(): ./aml_config afterwards holds the one descriptor of ws
WriteConfig(files, w) == {Descriptor(w)}

\* ws = Workspace(workspace_name, subscription_id, resource_group)
\* ws.write_config()
WriteConfigCell ==
    /\ Running("00.configuration", "write_config")
    /\ calls' = Issue("Workspace")
    /\ \E net \in Network :
         LET failure ==
                 IF ~Exists(subscription_id, resource_group, workspace_name)
                 THEN "WorkspaceNotFound"
                 ELSE IF net # "ok" THEN net ELSE ""
             w == Lookup(subscription_id, resource_group, workspace_name)
         IN  IF failure # ""
             THEN /\ Raise("Workspace", failure)
                  /\ UNCHANGED <<ws, aml_config, writes>>
             ELSE /\ ws' = w
                  /\ aml_config' = WriteConfig(aml_config, w)
                  /\ writes' = Append(writes, [subscription_id |-> subscription_id,
                                                resource_group |-> resource_group,
                                                workspace_name |-> workspace_name])
                  /\ Advance
    /\ UNCHANGED <<notebook, runs, remoteWs, permitted, my_workspace>>
    /\ UNCHANGED <<subscription_id, resource_group, workspace_name, workspace_region>>
    /\ UNCHANGED <<clientVars, serviceVars, dataVars, resultVars>>

\* the descriptor Workspace.from_config() finds under ./aml_config
ReadConfig(files) == CHOOSE d \in files : TRUE

\* why Workspace.from_config() raises, "" when it does not
FromConfigFailure(net) ==
    IF aml_config = {} THEN "ConfigNotFound"
    ELSE IF ~Exists(ReadConfig(aml_config).subscription_id,
                    ReadConfig(aml_config).resource_group,
                    ReadConfig(aml_config).workspace_name)
         THEN "WorkspaceNotFound"
    ELSE IF net # "ok" THEN net
    ELSE ""

\* faulty variant: the loader reads the workspace name where the resource group is
FromConfig_swapped(files) ==
    [subscription_id |-> ReadConfig(files).subscription_id,
     resource_group |-> ReadConfig(files).workspace_name,
     name |-> ReadConfig(files).resource_group,
     location |-> Lookup(ReadConfig(files).subscription_id,
                         ReadConfig(files).resource_group,
                         ReadConfig(files).workspace_name).location]

\* Workspace.from_config(): the workspace the descriptor names
FromConfig(files) ==
    Lookup(ReadConfig(files).subscription_id, ReadConfig(files).resource_group,
           ReadConfig(files).workspace_name)

\* my_workspace = Workspace.from_config()
\* my_workspace.get_details()
LoadConfigCell ==
    /\ Running("00.configuration", "from_config")
    /\ \E net \in Network, net2 \in Network :
         LET failure == FromConfigFailure(net)
         IN  IF failure # ""
             THEN /\ calls' = Issue("Workspace.from_config")
                  /\ Raise("Workspace.from_config", failure)
                  /\ UNCHANGED my_workspace
             ELSE /\ my_workspace' = FromConfig(aml_config)
                  /\ calls' = [calls EXCEPT !["Workspace.from_config"] = @ + 1,
                                            !["from_config.get_details"] = @ + 1]
                  /\ IF net2 # "ok" THEN Raise("from_config.get_details", net2)
                     ELSE Advance
    /\ UNCHANGED <<notebook, runs, ws>>
    /\ UNCHANGED <<subscription_id, resource_group, workspace_name, workspace_region>>
    /\ UNCHANGED <<worldVars, clientVars, serviceVars, dataVars, resultVars>>

\* a cell with no remote call and no effect on the modelled variables
\* (mkdir of the sample folder, diagnostics opt-in, makedirs, %%writefile,
\* viewing the data, the confusion matrix)
LocalCell ==
    /\ pc \in LocalCells
    /\ error = NoError
    /\ Advance
    /\ UNCHANGED <<notebook, calls, runs>>
    /\ UNCHANGED <<worldVars, kernelVars, clientVars, serviceVars, dataVars, resultVars>>

\* the user runs 00.configuration again in the same directory (the kernel
\* keeps its variables: Run All, not Restart)
Rerun ==
    /\ notebook = "00.configuration"
    /\ pc = "done" \/ error # NoError
    /\ runs < MaxRuns
    /\ runs' = runs + 1
    /\ pc' = ConfigCells[1]
    /\ error' = NoError
    /\ raised' = ""
    /\ calls' = [s \in CallSites |-> 0]
    /\ UNCHANGED notebook
    /\ UNCHANGED <<worldVars, kernelVars, clientVars, serviceVars, dataVars, resultVars>>

\* ------------------------------------------------ experiment notebook cells
NoExperiment == [workspace |-> NoWs, name |-> ""]
NoCompute == [name |-> "", workspace |-> NoWs]

\* ws = Workspace.from_config()
\* experiment = Experiment(ws, experiment_name)
ExperimentFromConfig ==
    /\ Running("experiment", "from_config")
    /\ calls' = Issue("Workspace.from_config")
    /\ \E net \in Network :
         LET failure == FromConfigFailure(net)
         IN  IF failure # ""
             THEN /\ Raise("Workspace.from_config", failure)
                  /\ UNCHANGED <<ws, experiment>>
             ELSE /\ ws' = FromConfig(aml_config)
                  /\ experiment' = [workspace |-> FromConfig(aml_config),
                                    name |-> "automl-remote-dsvm-blobstore"]
                  /\ Advance
    /\ UNCHANGED <<notebook, runs, my_workspace>>
    /\ UNCHANGED <<subscription_id, resource_group, workspace_name, workspace_region>>
    /\ UNCHANGED <<dsvm_compute, automl_settings, automl_config, remote_run, widget,
                   seen, fitted_model, zero_model, model_id>>
    /\ UNCHANGED <<worldVars, serviceVars, dataVars, resultVars>>

\* dsvm_compute = RemoteCompute.attach(workspace=ws, name=dsvm_name, ...)
Attach ==
    /\ Running("experiment", "attach")
    /\ calls' = Issue("RemoteCompute.attach")
    /\ \E net \in Network :
         IF net # "ok"
         THEN /\ Raise("RemoteCompute.attach", net)
              /\ UNCHANGED dsvm_compute
         ELSE /\ dsvm_compute' = [name |-> "mydsvm1", workspace |-> ws]
              /\ Advance
    /\ UNCHANGED <<notebook, runs>>
    /\ UNCHANGED <<experiment, automl_settings, automl_config, remote_run, widget,
                   seen, fitted_model, zero_model, model_id>>
    /\ UNCHANGED <<worldVars, kernelVars, serviceVars, dataVars, resultVars>>

\* the automl_settings dictionary of the notebook
AutoMLSettings ==
    [max_time_sec |-> 3600,
     iterations |-> 10,
     n_cross_validations |-> 5,
     primary_metric |-> "AUC_weighted",
     preprocess |-> TRUE,
     max_cores_per_iteration |-> 2]

\* AutoMLConfig(task, path, compute_target, data_script, **automl_settings)
AutoMLConfig(settings, compute) ==
    [task |-> "classification",
     path |-> "./sample_projects/automl-remote-dsvm-blobstore",
     compute_target |-> compute.name,
     data_script |-> "./sample_projects/automl-remote-dsvm-blobstore/get_data.py"]
      @@ settings

\* automl_settings = {...}; automl_config = AutoMLConfig(...)
Settings ==
    /\ Running("experiment", "settings")
    /\ automl_settings' = AutoMLSettings
    /\ automl_config' = AutoMLConfig(AutoMLSettings, dsvm_compute)
    /\ Advance
    /\ UNCHANGED <<notebook, calls, runs>>
    /\ UNCHANGED <<experiment, dsvm_compute, remote_run, widget, seen,
                   fitted_model, zero_model, model_id>>
    /\ UNCHANGED <<worldVars, kernelVars, serviceVars, dataVars, resultVars>>

\* ------------------------------------------------------ the remote run
InStatus(st, s) == {i \in DOMAIN st : st[i] = s}
Completed == InStatus(status, "Completed")
Executing == InStatus(status, "Running")

\* "concurrent_iterations: Max number of iterations that would be executed
\* in parallel"; the service's own default when the settings name none
ConcurrencyLimit ==
    IF "concurrent_iterations" \in DOMAIN run_settings
    THEN run_settings.concurrent_iterations
    ELSE default_concurrency

\* "iterations: Number of iterations": the indexes of the run's iterations
IterationIndexes(config) == 0..(config.iterations - 1)

\* faulty variant: the call waits for the iterations, as a local run does
StatusAtSubmit_blocking(config) == [i \in IterationIndexes(config) |-> "Completed"]

\* "For remote runs the execution is asynchronous": when submit returns no
\* iteration has been started
StatusAtSubmit(config) == [i \in IterationIndexes(config) |-> "NotStarted"]

\* remote_run = experiment.submit(automl_config)
Submit ==
    /\ Running("experiment", "submit")
    /\ calls' = Issue("experiment.submit")
    /\ \E net \in Network :
         IF net # "ok"
         THEN /\ Raise("experiment.submit", net)
              /\ UNCHANGED <<remote_run, run_settings, status>>
         ELSE /\ remote_run' = [id |-> "AutoML_run"]
              /\ run_settings' = automl_config
              /\ status' = StatusAtSubmit(automl_config)
              /\ Advance
    /\ UNCHANGED <<notebook, runs>>
    /\ UNCHANGED <<experiment, dsvm_compute, automl_settings, automl_config, widget,
                   seen, fitted_model, zero_model, model_id>>
    /\ UNCHANGED <<cancel_requested, cancel_requests, late, default_concurrency,
                   child_runs>>
    /\ UNCHANGED <<worldVars, kernelVars, dataVars, resultVars>>

\* faulty variant: the scheduler ignores the cancel request
MaySchedule_ignores_cancel == TRUE

\* "Cancel the ongoing experiment and stop scheduling new iterations"
MaySchedule == ~cancel_requested

\* the decimal digits of n, most significant first
Digits == <<"0", "1", "2", "3", "4", "5", "6", "7", "8", "9">>
RECURSIVE Format(_)
Format(n) == IF n < 10 THEN <<Digits[n + 1]>>
             ELSE Append(Format(n \div 10), Digits[(n % 10) + 1])

\* int(properties['iteration']): the number the decimal text stands for
DigitValue(d) == (CHOOSE k \in 1..10 : Digits[k] = d) - 1
RECURSIVE int(_)
int(text) == IF Len(text) = 1 THEN DigitValue(text[1])
             ELSE 10 * int(SubSeq(text, 1, Len(text) - 1)) + DigitValue(text[Len(text)])

\* the child run of iteration i: its 'iteration' property is the index as text
ChildRun(i) == [properties |-> [iteration |-> Format(i)]]

\* faulty variant: an iteration still executing is scheduled once more
NextIteration_again(st) ==
    CHOOSE j \in DOMAIN st \ InStatus(st, "Completed") :
       \A k \in DOMAIN st \ InStatus(st, "Completed") : j <= k

\* the iteration the scheduler starts next: the lowest not yet started
NextIteration(st) ==
    CHOOSE j \in InStatus(st, "NotStarted") :
       \A k \in InStatus(st, "NotStarted") : j <= k

\* the service starts the next iteration of the run, as a child run
StartIteration ==
    /\ remote_run # NoRun
    /\ MaySchedule
    /\ InStatus(status, "NotStarted") # {}
    /\ Cardinality(Executing) < ConcurrencyLimit
    /\ LET i == NextIteration(status)
       IN  /\ status' = [status EXCEPT ![i] = "Running"]
           /\ child_runs' = Append(child_runs, ChildRun(i))
    /\ UNCHANGED <<run_settings, cancel_requested, cancel_requests, late,
                   default_concurrency>>
    /\ UNCHANGED <<ctlVars, worldVars, kernelVars, clientVars, dataVars, resultVars>>

\* an iteration that is executing completes ("you will see the iterations
\* get populated as they complete"), also after a cancel request
CompleteIteration ==
    /\ \E i \in Executing :
         /\ status' = [status EXCEPT ![i] = "Completed"]
         /\ late' = (late \/ cancel_requested)
    /\ UNCHANGED <<run_settings, cancel_requested, cancel_requests, default_concurrency,
                   child_runs>>
    /\ UNCHANGED <<ctlVars, worldVars, kernelVars, clientVars, dataVars, resultVars>>

\* the service halts an executing iteration of a cancelled run
HaltIteration ==
    /\ cancel_requested
    /\ \E i \in Executing : status' = [status EXCEPT ![i] = "Canceled"]
    /\ UNCHANGED <<run_settings, cancel_requested, cancel_requests, late,
                   default_concurrency, child_runs>>
    /\ UNCHANGED <<ctlVars, worldVars, kernelVars, clientVars, dataVars, resultVars>>

\* faulty variant: a poll reports the iterations that are executing
Poll_executing(st) == InStatus(st, "Running")

\* the completed iterations a poll of the run shows
Poll(st) == InStatus(st, "Completed")

\* RunDetails(remote_run).show()
Widget ==
    /\ Running("experiment", "widget")
    /\ widget' = TRUE
    /\ seen' = Poll(status)
    /\ Advance
    /\ UNCHANGED <<notebook, calls, runs>>
    /\ UNCHANGED <<experiment, dsvm_compute, automl_settings, automl_config, remote_run,
                   fitted_model, zero_model, model_id>>
    /\ UNCHANGED <<worldVars, kernelVars, serviceVars, dataVars, resultVars>>

\* "It refreshed once per minute, so you should see the graph update as
\* child runs complete."
WidgetRefresh ==
    /\ widget
    /\ seen' = Poll(status)
    /\ seen' # seen
    /\ UNCHANGED <<experiment, dsvm_compute, automl_settings, automl_config, remote_run,
                   widget, fitted_model, zero_model, model_id>>
    /\ UNCHANGED <<ctlVars, worldVars, kernelVars, serviceVars, dataVars, resultVars>>

\* children = list(remote_run.get_children()): a poll of the run (the table
\* the cell builds from it is displayed, not kept here)
GetChildren ==
    /\ Running("experiment", "get_children")
    /\ calls' = Issue("get_children")
    /\ \E net \in Network :
         IF net # "ok"
         THEN /\ Raise("get_children", net)
              /\ UNCHANGED seen
         ELSE /\ seen' = Poll(status)
              /\ Advance
    /\ UNCHANGED <<notebook, runs>>
    /\ UNCHANGED <<experiment, dsvm_compute, automl_settings, automl_config, remote_run,
                   widget, fitted_model, zero_model, model_id>>
    /\ UNCHANGED <<worldVars, kernelVars, serviceVars, dataVars, resultVars>>

\* faulty variant: cancelling cuts the run's iteration count down to what has started
CancelledSettings_truncated(settings, st) ==
    [settings EXCEPT !.iterations = Cardinality(DOMAIN st \ InStatus(st, "NotStarted"))]

\* the settings of the run after a cancel request: as submitted
CancelledSettings(settings, st) == settings

\* remote_run.cancel()
Cancel ==
    /\ Running("experiment", "cancel")
    /\ calls' = Issue("cancel")
    /\ \E net \in Network :
         IF net # "ok"
         THEN /\ Raise("cancel", net)
              /\ UNCHANGED <<cancel_requested, cancel_requests, run_settings>>
         ELSE /\ cancel_requested' = TRUE
              /\ cancel_requests' = cancel_requests + 1
              /\ run_settings' = CancelledSettings(run_settings, status)
              /\ Advance
    /\ UNCHANGED <<notebook, runs, status, late, default_concurrency, child_runs>>
    /\ UNCHANGED <<worldVars, kernelVars, clientVars, dataVars, resultVars>>

\* best_run, fitted_model = remote_run.get_output(): the best of the
\* iterations completed "up to that point"; none completed, nothing to return
\* (kept: that a model was returned, not which iteration's)
GetOutput ==
    /\ Running("experiment", "get_output")
    /\ calls' = Issue("get_output")
    /\ \E net \in Network :
         LET failure == IF net # "ok" THEN net
                        ELSE IF Completed = {} THEN "NoCompletedIteration" ELSE ""
         IN  IF failure # ""
             THEN /\ Raise("get_output", failure)
                  /\ UNCHANGED fitted_model
             ELSE /\ fitted_model' = TRUE
                  /\ Advance
    /\ UNCHANGED <<notebook, runs>>
    /\ UNCHANGED <<experiment, dsvm_compute, automl_settings, automl_config, remote_run,
                   widget, seen, zero_model, model_id>>
    /\ UNCHANGED <<worldVars, kernelVars, serviceVars, dataVars, resultVars>>

\* iteration = 0
\* zero_run, zero_model = remote_run.get_output(iteration=iteration)
GetOutputIteration ==
    /\ Running("experiment", "get_output_iteration")
    /\ calls' = Issue("get_output_iteration")
    /\ \E net \in Network :
         LET failure == IF net # "ok" THEN net
                        ELSE IF 0 \notin Completed THEN "IterationNotCompleted" ELSE ""
         IN  IF failure # ""
             THEN /\ Raise("get_output_iteration", failure)
                  /\ UNCHANGED zero_model
             ELSE /\ zero_model' = TRUE
                  /\ Advance
    /\ UNCHANGED <<notebook, runs>>
    /\ UNCHANGED <<experiment, dsvm_compute, automl_settings, automl_config, remote_run,
                   widget, seen, fitted_model, model_id>>
    /\ UNCHANGED <<worldVars, kernelVars, serviceVars, dataVars, resultVars>>

\* remote_run.register_model(description=description, tags=tags)
\* remote_run.model_id
RegisterModel ==
    /\ Running("experiment", "register_model")
    /\ calls' = Issue("register_model")
    /\ \E net \in Network :
         IF net # "ok"
         THEN /\ Raise("register_model", net)
              /\ UNCHANGED model_id
         ELSE /\ model_id' = "AutoML_model"
              /\ Advance
    /\ UNCHANGED <<notebook, runs>>
    /\ UNCHANGED <<experiment, dsvm_compute, automl_settings, automl_config, remote_run,
                   widget, seen, fitted_model, zero_model>>
    /\ UNCHANGED <<worldVars, kernelVars, serviceVars, dataVars, resultVars>>

\* --------------------------------------------- get_data.py and the test cell
\* fewest rows train_test_split(test_size=0.1) accepts, and the bound on rows
MinRows == 2
MaxRows == 5

NoData == [X |-> <<>>, y |-> <<>>]

\* the orders random_state=42 may put n rows in: one of them, fixed by the seed
Shuffles(n) ==
    {p \in [1..n -> 1..n] : \A i, j \in 1..n : i # j => p[i] # p[j]}

\* rows in the test part for test_size=0.1: ceil(0.1 * n)
TestSize(n) == (n + 9) \div 10

\* train_test_split(df, y, test_size=0.1, random_state=42) over rows 1..n,
\* perm being the shuffle of the seed: the test part is taken first, the
\* train part is the rest
TrainTestSplit(n, perm) ==
    [test |-> [i \in 1..TestSize(n) |-> perm[i]],
     train |-> [i \in 1..(n - TestSize(n)) |-> perm[TestSize(n) + i]]]

\* the rows of a frame
Rows(frame) == {frame[i] : i \in DOMAIN frame}

\* get_data(): df and y are the whole file; the split is computed into
\* df_train, y_train and not returned:  return { "X" : df, "y" : y }
get_data(n, perm) ==
    LET df == [i \in 1..n |-> i]
        y == [i \in 1..n |-> i]
        split == TrainTestSplit(n, perm)
        df_train == split.train
        y_train == split.train
    IN  [X |-> df, y |-> y]

\* %run get_data.py; data_dict = get_data()
ViewData ==
    /\ dstep = "get_data"
    /\ data_dict' = get_data(n_rows, shuffle)
    /\ dstep' = "test_model"
    /\ UNCHANGED <<n_rows, shuffle, df_test>>
    /\ UNCHANGED <<ctlVars, worldVars, kernelVars, clientVars, serviceVars, resultVars>>

\* _, df_test, _, y_test = train_test_split(df, y, test_size=0.1, random_state=42)
\* ypred = fitted_model.predict(df_test.values)
TestModel ==
    /\ dstep = "test_model"
    /\ df_test' = TrainTestSplit(n_rows, shuffle).test
    /\ dstep' = "done"
    /\ UNCHANGED <<n_rows, shuffle, data_dict>>
    /\ UNCHANGED <<ctlVars, worldVars, kernelVars, clientVars, serviceVars, resultVars>>

\* ------------------------------------------ the results of the run
\* Python values: a float and a value of another type (an int)
Float(x) == [type |-> "float", value |-> x]
Other(x) == [type |-> "int", value |-> x]

\* isinstance(v, float)
isinstance_float(v) == v.type = "float"

\* a Python dict is the sequence of its <<key, value>> items in insertion order
Keys(dict) == [k \in 1..Len(dict) |-> dict[k][1]]
Has(dict, key) == \E k \in 1..Len(dict) : dict[k][1] = key
Get(dict, key) == dict[CHOOSE k \in 1..Len(dict) : dict[k][1] = key][2]

\* dict[key] = value: a key already there keeps its place and takes the value
SetItem(dict, key, value) ==
    IF Has(dict, key)
    THEN [k \in 1..Len(dict) |-> IF dict[k][1] = key THEN <<key, value>> ELSE dict[k]]
    ELSE Append(dict, <<key, value>>)

\* metric values a completed iteration may have scored
Scores == {1, 2}

\* the lookup metric of the "Best Model based on any other metric" cell
lookup_metric == "accuracy"

\* the metrics a run logs besides the primary and the lookup metric: none,
\* or one whose value is not a float (the same names in every child run)
OtherMetrics == {<<>>, <<<<"nonfloat", Other(1)>>>>}

\* what a completed iteration may log
LoggedMetrics(other) ==
    {<<<<AutoMLSettings.primary_metric, Float(a)>>>> \o other
        \o <<<<lookup_metric, Float(b)>>>> : a \in Scores, b \in Scores}

\* what the iterations before the freely drawn ones logged
BaseMetrics(other) ==
    <<<<AutoMLSettings.primary_metric, Float(1)>>>> \o other
      \o <<<<lookup_metric, Float(1)>>>>

\* a started iteration: executing or halted (nothing logged), or completed
ChildOutcomes(other) ==
    {[status |-> s, metrics |-> <<>>] : s \in {"Running", "Canceled"}}
      \cup {[status |-> "Completed", metrics |-> m] : m \in LoggedMetrics(other)}

\* run.get_properties() and run.get_metrics() of a child run
get_properties(run) == run.properties
get_metrics(run) == logged[int(run.properties.iteration)]

\* the orders get_children may return n child runs in: any, while n is
\* within MaxChildren; oldest first or newest first beyond
Orders(n) ==
    IF n <= MaxChildren THEN Shuffles(n)
    ELSE {[k \in 1..n |-> k], [k \in 1..n |-> n + 1 - k]}

\* {k: v for k, v in run.get_metrics().items() if isinstance(v, float)}
FloatMetrics(metrics) ==
    LET keep(item) == isinstance_float(item[2])
    IN  SelectSeq(metrics, keep)

\* int(properties['iteration']) of the run the loop is at
Key(run) == int(get_properties(run).iteration)

\* for run in children: ... metricslist[int(properties['iteration'])] = metrics
RECURSIVE Loop(_, _)
Loop(rest, dict) ==
    IF rest = <<>> THEN dict
    ELSE LET run == Head(rest)
             metrics == FloatMetrics(get_metrics(run))
         IN  Loop(Tail(rest), SetItem(dict, Key(run), metrics))

MetricsList(list) == Loop(list, <<>>)

\* pd.DataFrame(dict of dicts): one column per outer key, in the dict's
\* order (also for an empty inner dict); the rows are the inner keys; a cell
\* exists where the column's dict has the row's key (NaN elsewhere)
DataFrame(dict) ==
    LET items(c) == Get(dict, c)
        cells == UNION {{<<items(dict[k][1])[j][1], dict[k][1]>> :
                           j \in 1..Len(items(dict[k][1]))} : k \in 1..Len(dict)}
    IN  [columns |-> Keys(dict),
         index |-> {p[1] : p \in cells},
         cell |-> [p \in cells |-> Get(items(p[2]), p[1])]]

\* the distinct integers of a sequence in ascending order
RECURSIVE Ascending(_)
Ascending(seq) ==
    IF seq = <<>> THEN <<>>
    ELSE LET least == CHOOSE x \in {seq[k] : k \in 1..Len(seq)} :
                         \A k \in 1..Len(seq) : x <= seq[k]
             differs(x) == x # least
         IN  <<least>> \o Ascending(SelectSeq(seq, differs))

\* faulty variant: the rows are sorted (axis 0), the columns stay as inserted
sort_index_rows(frame, axis) == frame

\* frame.sort_index(1): the columns in ascending order of their labels
sort_index(frame, axis) ==
    IF axis = 1 THEN [frame EXCEPT !.columns = Ascending(frame.columns)] ELSE frame

\* the child runs that completed
CompletedRuns ==
    {child_runs[k] : k \in {j \in 1..Len(child_runs) :
                              status[int(child_runs[j].properties.iteration)] = "Completed"}}

\* the value a child run logged for a metric
Score(run, metric) == Get(get_metrics(run), metric).value

\* faulty variant: the completed runs with the lowest value of the metric
BestRuns_lowest(metric) ==
    {run \in CompletedRuns :
       \A other \in CompletedRuns : Score(run, metric) <= Score(other, metric)}

\* "get_output returns the best run": the completed runs no other completed
\* run beats on the metric
BestRuns(metric) ==
    {run \in CompletedRuns :
       \A other \in CompletedRuns : Score(other, metric) <= Score(run, metric)}

\* the completed run of iteration i, if there is one
IterationRuns(i) == {run \in CompletedRuns : int(run.properties.iteration) = i}

\* children = list(remote_run.get_children())
\* metricslist = {}; for run in children: ...
\* rundata = pd.DataFrame(metricslist).sort_index(1)
RetrieveAllChildRuns ==
    /\ rstep = "call"
    /\ \E order \in Orders(Len(child_runs)) :
         children' = [k \in 1..Len(child_runs) |-> child_runs[order[k]]]
    /\ metricslist' = MetricsList(children')
    /\ rundata' = sort_index(DataFrame(metricslist'), 1)
    /\ rstep' = "get_children"
    /\ UNCHANGED <<logged, best_run, zero_run>>
    /\ UNCHANGED <<ctlVars, worldVars, kernelVars, clientVars, serviceVars, dataVars>>

\* best_run, fitted_model = remote_run.get_output()
RetrieveBestModel ==
    /\ rstep = "call"
    /\ IF BestRuns(run_settings.primary_metric) = {}
       THEN /\ raised' = "NoCompletedIteration"
            /\ UNCHANGED <<best_run, fitted_model>>
       ELSE /\ best_run' \in BestRuns(run_settings.primary_metric)
            /\ fitted_model' = TRUE
            /\ raised' = raised
    /\ rstep' = "get_output"
    /\ UNCHANGED <<logged, children, metricslist, rundata, zero_run>>
    /\ UNCHANGED <<notebook, pc, error, calls, runs>>
    /\ UNCHANGED <<experiment, dsvm_compute, automl_settings, automl_config, remote_run,
                   widget, seen, zero_model, model_id>>
    /\ UNCHANGED <<worldVars, kernelVars, serviceVars, dataVars>>

\* # lookup_metric = "accuracy"
\* # best_run, fitted_model = remote_run.get_output(metric=lookup_metric)
\* (the cell with its two lines uncommented)
BestModelByMetric ==
    /\ rstep = "call"
    /\ IF BestRuns(lookup_metric) = {}
       THEN /\ raised' = "NoCompletedIteration"
            /\ UNCHANGED <<best_run, fitted_model>>
       ELSE /\ best_run' \in BestRuns(lookup_metric)
            /\ fitted_model' = TRUE
            /\ raised' = raised
    /\ rstep' = "get_output_metric"
    /\ UNCHANGED <<logged, children, metricslist, rundata, zero_run>>
    /\ UNCHANGED <<notebook, pc, error, calls, runs>>
    /\ UNCHANGED <<experiment, dsvm_compute, automl_settings, automl_config, remote_run,
                   widget, seen, zero_model, model_id>>
    /\ UNCHANGED <<worldVars, kernelVars, serviceVars, dataVars>>

\* iteration = 0
\* zero_run, zero_model = remote_run.get_output(iteration=iteration)
ModelFromIteration ==
    /\ rstep = "call"
    /\ LET iteration == 0
       IN  IF IterationRuns(iteration) = {}
           THEN /\ raised' = "IterationNotCompleted"
                /\ UNCHANGED <<zero_run, zero_model>>
           ELSE /\ zero_run' \in IterationRuns(iteration)
                /\ zero_model' = TRUE
                /\ raised' = raised
    /\ rstep' = "get_output_iteration"
    /\ UNCHANGED <<logged, children, metricslist, rundata, best_run>>
    /\ UNCHANGED <<notebook, pc, error, calls, runs>>
    /\ UNCHANGED <<experiment, dsvm_compute, automl_settings, automl_config, remote_run,
                   widget, seen, fitted_model, model_id>>
    /\ UNCHANGED <<worldVars, kernelVars, serviceVars, dataVars>>

\* ------------------------------------------------------------------ Init
InitKernel ==
    /\ subscription_id = "" /\ resource_group = "" /\ workspace_name = ""
    /\ workspace_region = ""
    /\ ws = NoWs /\ my_workspace = NoWs
    /\ experiment = NoExperiment /\ dsvm_compute = NoCompute
    /\ automl_settings = NoSettings /\ automl_config = NoSettings
    /\ remote_run = NoRun /\ widget = FALSE /\ seen = {}
    /\ fitted_model = FALSE /\ zero_model = FALSE /\ model_id = ""

InitControl ==
    /\ error = NoError /\ raised = ""
    /\ calls = [s \in CallSites |-> 0]
    /\ runs = 1

InitService ==
    /\ run_settings = NoSettings
    /\ status = [i \in {} |-> ""]
    /\ cancel_requested = FALSE /\ cancel_requests = 0 /\ late = FALSE
    /\ child_runs = <<>>

NoDataSet ==
    /\ n_rows = 0 /\ shuffle = <<>> /\ data_dict = NoData /\ df_test = <<>>
    /\ dstep = "off"

\* nothing logged, nothing fetched (metric values are followed in SpecResults)
NoChild == [properties |-> [iteration |-> <<>>]]
NoResults ==
    /\ logged = [i \in {} |-> <<>>]
    /\ children = <<>> /\ metricslist = <<>>
    /\ rundata = [columns |-> <<>>, index |-> {}, cell |-> [c \in {} |-> 0]]
    /\ best_run = NoChild /\ zero_run = NoChild
    /\ rstep = "off"

\* a workspace somebody created earlier
Existing == Workspace("sub1", "myrg", "myws", "eastus2")

\* 00.configuration opened in a directory that has no configuration yet
InitConfiguration ==
    /\ notebook = "00.configuration"
    /\ pc = ConfigCells[1]
    /\ remoteWs \in {{}, {Existing}}
    /\ permitted \in BOOLEAN
    /\ aml_config = {}
    /\ writes = <<>>
    /\ default_concurrency = 1

\* the experiment notebook opened after 00.configuration wrote the
\* descriptor of a workspace (which may have been deleted since), or in a
\* directory where it was never run
InitExperiment ==
    /\ notebook = "experiment"
    /\ pc = ExperimentCells[1]
    /\ permitted = TRUE
    /\ default_concurrency \in 1..MaxConcurrent
    /\ \/ /\ aml_config = {} /\ writes = <<>> /\ remoteWs = {}
       \/ /\ aml_config = WriteConfig({}, Existing)
          /\ writes = <<[subscription_id |-> "sub1", resource_group |-> "myrg",
                         workspace_name |-> "myws"]>>
          /\ remoteWs \in {{}, {Existing}}

Init ==
    /\ InitControl /\ InitKernel /\ InitService /\ NoDataSet /\ NoResults
    /\ InitConfiguration \/ InitExperiment

Next ==
    \/ Params \/ Create \/ SkipCreate \/ WriteConfigCell \/ LoadConfigCell
    \/ LocalCell \/ Rerun
    \/ ExperimentFromConfig \/ Attach \/ Settings \/ Submit
    \/ Widget \/ WidgetRefresh \/ GetChildren \/ Cancel
    \/ GetOutput \/ GetOutputIteration \/ RegisterModel
    \/ StartIteration \/ CompleteIteration \/ HaltIteration

Spec == Init /\ [][Next]_vars

\* ================================================================ claims
\* the identity a workspace reference carries, as a descriptor
Identity(w) ==
    [subscription_id |-> w.subscription_id, resource_group |-> w.resource_group,
     workspace_name |-> w.name]

\* the values the most recent write_config was given
LastWrite == writes[Len(writes)]

\* Workspace.from_config() has returned in this execution
Loaded ==
    /\ calls["Workspace.from_config"] = 1
    /\ error.call # "Workspace.from_config"

CreateCalled == calls'["Workspace.create"] = calls["Workspace.create"] + 1

RunOperations == {"get_children", "cancel", "get_output", "get_output_iteration",
                  "register_model"}

\* C5: in the experiment notebook the job is submitted at most once and
\* only with the workspace loaded; no poll, cancel, get_output or
\* register_model is issued without a run handle; and no call of a cell
\* below the current one has been issued (nothing runs again or out of order).
C5_LinearPipeline ==
    notebook = "experiment" =>
      /\ calls["experiment.submit"] <= 1
      /\ calls["experiment.submit"] = 1 =>
           /\ calls["Workspace.from_config"] = 1
           /\ ws # NoWs /\ experiment.workspace = ws
      /\ remote_run = NoRun => (~widget /\ \A s \in RunOperations : calls[s] = 0)
      /\ \A s \in SitesOf(notebook) :
           calls[s] >= 1 => CellIndex(notebook, CellOf(s)) <= CellIndex(notebook, pc)

\* C5 witness: the whole pipeline ran
C5_Witness ==
    /\ notebook = "experiment" /\ pc = "done"
    /\ \A s \in SitesOf("experiment") : calls[s] = 1

\* the step in which experiment.submit returns the run handle
SubmitReturns == remote_run = NoRun /\ remote_run' # NoRun

CancelCalled == calls'["cancel"] = calls["cancel"] + 1

C8_ConcurrencyLimitSet ==
    automl_settings # NoSettings =>
      /\ "concurrent_iterations" \in DOMAIN automl_settings
      /\ Cardinality(Executing) <= automl_settings.concurrent_iterations

C10_GetDataIsTrainPart ==
    dstep = "done" =>
      /\ Rows(data_dict.X) = Rows(TrainTestSplit(n_rows, shuffle).train)
      /\ Rows(data_dict.X) \cap Rows(df_test) = {}

\* the iteration index a child run carries
IterationOf(run) == int(run.properties.iteration)

C13_TablePerChild ==
    rstep = "get_children" =>
      LET column == rundata.columns
          label == [k \in 1..Len(children) |-> IterationOf(children[k])]
      IN  /\ Len(children) = Len(child_runs)
          /\ {children[k] : k \in 1..Len(children)}
               = {child_runs[k] : k \in 1..Len(child_runs)}
          /\ Len(column) = Len(children)
          /\ {column[k] : k \in 1..Len(column)} = {label[k] : k \in 1..Len(children)}
          /\ \A k, l \in 1..Len(column) : k < l => column[k] < column[l]
          /\ \A p \in DOMAIN rundata.cell :
               /\ p[2] \in DOMAIN logged
               /\ Has(logged[p[2]], p[1])
               /\ Get(logged[p[2]], p[1]).type = "float"
               /\ rundata.cell[p] = Get(logged[p[2]], p[1])
          /\ \A k \in 1..Len(children) : \A j \in 1..Len(logged[label[k]]) :
               LET item == logged[label[k]][j]
               IN  item[2].type = "float" => <<item[1], label[k]>> \in DOMAIN rundata.cell

\* C13 witness: get_children returned three child runs with the newest
\* first; one of them logged nothing, another logged a non-float metric
\* besides its float metrics; the table is built
C13_Witness ==
    /\ rstep = "get_children"
    /\ Len(children) = 3
    /\ IterationOf(children[1]) > IterationOf(children[2])
    /\ \E k \in 1..Len(children) : logged[IterationOf(children[k])] = <<>>
    /\ \E k \in 1..Len(children) : Has(logged[IterationOf(children[k])], "nonfloat")
    /\ Len(rundata.columns) = 3
    /\ rundata.index = {AutoMLSettings.primary_metric, lookup_metric}

\* the run returned is a completed child run of the run, and no completed
\* iteration logged a higher value of the metric than it did
BestOfCompleted(run, metric) ==
    /\ \E k \in 1..Len(child_runs) : child_runs[k] = run
    /\ IterationOf(run) \in Completed
    /\ \A i \in Completed :
         Get(logged[i], metric).value <= Get(logged[IterationOf(run)], metric).value

InitData ==
    /\ InitControl /\ InitKernel /\ InitService /\ NoResults
    /\ notebook = "experiment" /\ pc = ExperimentCells[1]
    /\ permitted = TRUE /\ remoteWs = {Existing} /\ default_concurrency = 1
    /\ aml_config = WriteConfig({}, Existing)
    /\ writes = <<[subscription_id |-> "sub1", resource_group |-> "myrg",
                   workspace_name |-> "myws"]>>
    /\ n_rows \in MinRows..MaxRows
    /\ shuffle \in Shuffles(n_rows)
    /\ data_dict = NoData /\ df_test = <<>>
    /\ dstep = "get_data"

NextData == ViewData \/ TestModel

SpecData == InitData /\ [][NextData]_vars

\* --------------------------------------------------------------- SpecResults
\* the cells that fetch results, each on its own, against every state within
\* bounds of a submitted run: nothing or all but MaxChildren of the
\* iterations completed earlier, then up to MaxChildren started iterations
\* that are executing, halted or completed with any metrics
InitResults ==
    /\ notebook = "experiment" /\ pc = "get_children"
    /\ error = NoError /\ raised = "" /\ runs = 1
    /\ calls = [s \in CallSites |->
                  IF s \in {"Workspace.from_config", "RemoteCompute.attach",
                            "experiment.submit"} THEN 1 ELSE 0]
    /\ permitted = TRUE /\ remoteWs = {Existing}
    /\ aml_config = WriteConfig({}, Existing)
    /\ writes = <<[subscription_id |-> "sub1", resource_group |-> "myrg",
                   workspace_name |-> "myws"]>>
    /\ subscription_id = "" /\ resource_group = "" /\ workspace_name = ""
    /\ workspace_region = ""
    /\ ws = FromConfig(aml_config) /\ my_workspace = NoWs
    /\ experiment = [workspace |-> ws, name |-> "automl-remote-dsvm-blobstore"]
    /\ dsvm_compute = [name |-> "mydsvm1", workspace |-> ws]
    /\ automl_settings = AutoMLSettings
    /\ automl_config = AutoMLConfig(AutoMLSettings, dsvm_compute)
    /\ remote_run = [id |-> "AutoML_run"]
    /\ widget = TRUE /\ seen = {}
    /\ fitted_model = FALSE /\ zero_model = FALSE /\ model_id = ""
    /\ run_settings = automl_config
    /\ default_concurrency = MaxConcurrent
    /\ late = FALSE
    /\ \E base \in {0, run_settings.iterations - MaxChildren}, n \in 0..MaxChildren :
       \E other \in OtherMetrics : \E last \in [1..n -> ChildOutcomes(other)] :
         /\ status = [i \in IterationIndexes(run_settings) |->
                        IF i < base THEN "Completed"
                        ELSE IF i < base + n THEN last[i - base + 1].status
                        ELSE "NotStarted"]
         /\ logged = [i \in 0..(base + n - 1) |->
                        IF i < base THEN BaseMetrics(other) ELSE last[i - base + 1].metrics]
         /\ child_runs = [k \in 1..(base + n) |-> ChildRun(k - 1)]
    /\ Cardinality(Executing) <= ConcurrencyLimit
    /\ cancel_requested \in BOOLEAN
    /\ InStatus(status, "Canceled") # {} => cancel_requested
    /\ cancel_requests = IF cancel_requested THEN 1 ELSE 0
    /\ children = <<>> /\ metricslist = <<>>
    /\ rundata = [columns |-> <<>>, index |-> {}, cell |-> [c \in {} |-> 0]]
    /\ best_run = NoChild /\ zero_run = NoChild
    /\ rstep = "call"
    /\ n_rows = 0 /\ shuffle = <<>> /\ data_dict = NoData /\ df_test = <<>>
    /\ dstep = "off"

NextResults ==
    \/ RetrieveAllChildRuns \/ RetrieveBestModel \/ BestModelByMetric
    \/ ModelFromIteration

SpecResults == InitResults /\ [][NextResults]_vars
====
